---- MODULE Spec2Model ----
(***************************************************************************)
(* State-machine model of src/app.py: the WebAuthn registration and login  *)
(* ceremonies, the in-memory challenge store and the SQLite credential     *)
(* store.                                                                  *)
(*                                                                         *)
(* Every endpoint is an `async def` coroutine without a single `await` in  *)
(* its body, so on the event loop each handler runs to completion before   *)
(* the next request is served: one action per handler, requests of all     *)
(* clients served in any order.                                            *)
(*                                                                         *)
(* Strings are sequences of one-character strings, byte strings are        *)
(* tagged records, dictionary keys are sequences of tokens so that the     *)
(* f"{session_id}_username" concatenation is a real concatenation.         *)
(***************************************************************************)
EXTENDS Integers, Sequences, FiniteSets, TLC

VARIABLES challenges, users, credentials, authed_user, minted, origin, phase

vars == <<challenges, users, credentials, authed_user, minted, origin, phase>>

(***************************************************************************)
(* Bounds of the model.                                                    *)
(***************************************************************************)
\* number of successful start calls (each draws fresh secrets)
MaxStarts == 2
\* largest signature counter an authenticator reports
MaxCount == 2

(***************************************************************************)
(* Inputs.                                                                 *)
(***************************************************************************)
\* session_id cookie values presented by clients.  The cookie is taken from
\* the request as is, so a client may present the text of another session's
\* id followed by "_username".
Sessions == { <<"s1">>, <<"s2">>, <<"s1", "_username">> }

\* body.username as typed by the client
RawUsernames == { <<" ">>, <<"a">>, <<"A", " ">>, <<"b">> }

\* authenticators (key pairs) the clients hold
Authenticators == { "k1", "k2" }

Space == " "

IsBlank(c) == c = Space

LowerChar(c) ==
    CASE c = "A" -> "a"
      [] c = "B" -> "b"
      [] OTHER -> c

RECURSIVE LStrip(_)
LStrip(s) ==
    IF s = <<>> THEN <<>>
    ELSE IF IsBlank(Head(s)) THEN LStrip(Tail(s)) ELSE s

RECURSIVE RStrip(_)
RStrip(s) ==
    IF s = <<>> THEN <<>>
    ELSE IF IsBlank(s[Len(s)]) THEN RStrip(SubSeq(s, 1, Len(s) - 1)) ELSE s

\* str.strip()
Strip(s) == RStrip(LStrip(s))

\* str.lower()
Lower(s) == [i \in 1..Len(s) |-> LowerChar(s[i])]

\* Variant: the username is trimmed but its case is kept
NormalizeKeepsCase(raw) == Strip(raw)

\* body.username.strip().lower()
Normalize(raw) == Lower(Strip(raw))

Usernames == { Normalize(r) : r \in RawUsernames } \ { <<>> }

(***************************************************************************)
(* Byte strings held in the challenge store.                               *)
(***************************************************************************)
NoText == <<"-">>

\* dict.pop(key, None) on a missing key
None == [t |-> "none", n |-> 0, s |-> NoText]

\* options.challenge: the n-th fresh random challenge
Chal(n) == [t |-> "chal", n |-> n, s |-> NoText]

\* secrets.token_hex(16).encode(): the n-th fresh user id
UidBytes(n) == [t |-> "uid", n |-> n, s |-> NoText]

\* username.encode()
NameBytes(u) == [t |-> "name", n |-> 0, s |-> u]

\* Python truthiness of a popped value: None and b"" are falsy
Truthy(v) == v # None /\ ~(v.t = "name" /\ v.s = <<>>)

\* bytes.decode(): random challenge bytes are not UTF-8 text
DecodeFails(v) == v.t = "chal"

(***************************************************************************)
(* Keys of the challenge dictionary.                                       *)
(***************************************************************************)
ChallengeSlot == <<>>
UserIdSlot == <<"_user_id">>
UsernameSlot == <<"_username">>

Slots == { ChallengeSlot, UserIdSlot, UsernameSlot }

\* session_id, f"{session_id}_user_id", f"{session_id}_username"
Key(s, slot) == s \o slot

Keys == { Key(s, slot) : s \in Sessions, slot \in Slots }

(***************************************************************************)
(* base64 text: the encoded characters of `body` followed by `pad` '='     *)
(* characters.                                                             *)
(***************************************************************************)
\* '=' characters a canonical encoding of b carries
PadOf(b) == (3 - (Len(b) % 3)) % 3

\* urlsafe_b64encode(b).decode()
B64Encode(b) == [body |-> b, pad |-> PadOf(b)]

\* text + "=="
AppendPad(text) == [body |-> text.body, pad |-> text.pad + 2]

\* urlsafe_b64decode raises "Incorrect padding" when '=' characters are missing;
\* surplus ones are ignored
B64DecodeFails(text) == text.pad < PadOf(text.body)

B64Decode(text) == text.body

\* verification.credential_id / verification.credential_public_key reported by
\* an authenticator
RawCredentialId(k) == IF k = "k1" THEN <<1>> ELSE <<2, 2, 2>>

RawPublicKey(k) == IF k = "k1" THEN <<11, 12>> ELSE <<21>>

(***************************************************************************)
(* Signed responses of the clients (body.credential).                      *)
(***************************************************************************)
\* what a client may have signed: a challenge, the bytes of a username, or
\* nothing meaningful (a malformed response)
Signable ==
    { Chal(n) : n \in 1..MaxStarts } \cup { NameBytes(u) : u \in Usernames } \cup { None }

\* The gateway only compares the signed value with expected_challenge, so the
\* responses sent to a finish call are those over the value `expected` and
\* those over one other value (a stale challenge, a forgery, garbage).
SignedValues(expected) ==
    { expected, CHOOSE v \in Signable : v # expected }

Responses(expected) ==
    [chal : SignedValues(expected), key : Authenticators, count : 0..MaxCount]

(***************************************************************************)
(* Verification gateway (py_webauthn), as called from the two finish       *)
(* handlers.                                                               *)
(***************************************************************************)
\* verify_registration_response raises unless the response answers
\* expected_challenge
RegistrationVerifies(resp, expected_challenge) ==
    resp.chal # None /\ resp.chal = expected_challenge

\* verify_authentication_response raises unless the response answers
\* expected_challenge, its signature verifies under credential_public_key and
\* the reported counter is above the known one (both being 0 is tolerated)
AuthenticationVerifies(resp, expected_challenge, public_key, current_sign_count) ==
    /\ resp.chal # None
    /\ resp.chal = expected_challenge
    /\ RawPublicKey(resp.key) = public_key
    /\ ~((resp.count > 0 \/ current_sign_count > 0) /\ resp.count <= current_sign_count)

(***************************************************************************)
(* Credential store (SQLite tables users and credentials).                 *)
(***************************************************************************)
\* Python None bound to the NOT NULL username column
NullName == <<"NULL">>

\* SELECT id FROM users WHERE username = ?
FindUser(username) == { u \in users : u.username = username }

\* SELECT ... FROM credentials WHERE user_id = ?
CredentialsOf(user_id) == { c \in credentials : c.user_id = user_id }

\* INSERT INTO users: PRIMARY KEY id, UNIQUE NOT NULL username
InsertUserFails(user_id, username) ==
    \/ username = NullName
    \/ \E u \in users : u.id = user_id \/ u.username = username

\* INSERT INTO credentials: PRIMARY KEY credential_id
InsertCredentialFails(cred_id) ==
    \E c \in credentials : c.credential_id = cred_id

\* Variant: a commit after each INSERT, so that the user row stays when the
\* credential INSERT fails.
PersistRegistrationAutocommit(user_id, username, cred_id, pub_key, sign_count) ==
    IF InsertUserFails(user_id, username)
    THEN [ok |-> FALSE, users |-> users, credentials |-> credentials]
    ELSE IF InsertCredentialFails(cred_id)
    THEN [ok |-> FALSE,
          users |-> users \cup { [id |-> user_id, username |-> username] },
          credentials |-> credentials]
    ELSE [ok |-> TRUE,
          users |-> users \cup { [id |-> user_id, username |-> username] },
          credentials |-> credentials \cup
              { [credential_id |-> cred_id, user_id |-> user_id,
                 public_key |-> pub_key, sign_count |-> sign_count] }]

\* Variant: the failure of the user INSERT is swallowed and the credential
\* row is committed on its own.
PersistRegistrationOrphan(user_id, username, cred_id, pub_key, sign_count) ==
    IF InsertCredentialFails(cred_id)
    THEN [ok |-> FALSE, users |-> users, credentials |-> credentials]
    ELSE IF InsertUserFails(user_id, username)
    THEN [ok |-> FALSE,
          users |-> users,
          credentials |-> credentials \cup
              { [credential_id |-> cred_id, user_id |-> user_id,
                 public_key |-> pub_key, sign_count |-> sign_count] }]
    ELSE [ok |-> TRUE,
          users |-> users \cup { [id |-> user_id, username |-> username] },
          credentials |-> credentials \cup
              { [credential_id |-> cred_id, user_id |-> user_id,
                 public_key |-> pub_key, sign_count |-> sign_count] }]

\* Variant: a registration for a username that exists adds the credential
\* to the existing user
PersistRegistrationUpsert(user_id, username, cred_id, pub_key, sign_count) ==
    IF InsertCredentialFails(cred_id) \/ username = NullName
    THEN [ok |-> FALSE, users |-> users, credentials |-> credentials]
    ELSE IF FindUser(username) # {}
    THEN [ok |-> TRUE,
          users |-> users,
          credentials |-> credentials \cup
              { [credential_id |-> cred_id, user_id |-> u.id,
                 public_key |-> pub_key, sign_count |-> sign_count]
                : u \in FindUser(username) }]
    ELSE [ok |-> TRUE,
          users |-> users \cup { [id |-> user_id, username |-> username] },
          credentials |-> credentials \cup
              { [credential_id |-> cred_id, user_id |-> user_id,
                 public_key |-> pub_key, sign_count |-> sign_count] }]

\* The two INSERTs and the commit of register_finish.  sqlite3 opens one
\* transaction at the first INSERT; an IntegrityError leaves the `with` block
\* before commit and conn.close() discards the transaction.
PersistRegistration(user_id, username, cred_id, pub_key, sign_count) ==
    IF InsertUserFails(user_id, username) \/ InsertCredentialFails(cred_id)
    THEN [ok |-> FALSE, users |-> users, credentials |-> credentials]
    ELSE [ok |-> TRUE,
          users |-> users \cup { [id |-> user_id, username |-> username] },
          credentials |-> credentials \cup
              { [credential_id |-> cred_id, user_id |-> user_id,
                 public_key |-> pub_key, sign_count |-> sign_count] }]

\* Variant: the UPDATE is never committed
UpdateSignCountUncommitted(cred_id, new_sign_count) == credentials

\* UPDATE credentials SET sign_count = ? WHERE credential_id = ?
UpdateSignCount(cred_id, new_sign_count) ==
    { IF c.credential_id = cred_id
      THEN [c EXCEPT !.sign_count = new_sign_count]
      ELSE c : c \in credentials }

(***************************************************************************)
(* Challenge dictionary.                                                   *)
(***************************************************************************)
\* challenges.pop(key, None): the value read
Popped(key) == challenges[key]

\* Variant: challenges.get(key) in place of pop, the entries stay
AfterGet(ks) == challenges

\* Variant: only the challenge is popped, the pending metadata is read with get
AfterPopOfChallengeOnly(ks) ==
    [k \in Keys |-> IF k \in ks /\ (\A k2 \in ks : Len(k) <= Len(k2))
                    THEN None ELSE challenges[k]]

\* challenges.pop(key, None) for each key of ks: the dictionary left
AfterPop(ks) == [k \in Keys |-> IF k \in ks THEN None ELSE challenges[k]]

(***************************************************************************)
(* Bookkeeping, not program state.  origin[k] is the start call that wrote *)
(* the entry now under key k.  phase[s] records the latest successful     *)
(* start in s (its kind, the username it bound, the challenge it issued),  *)
(* that a finish call in s got past the "no pending" check since          *)
(* ("consumed") or failed it ("dropped"), or that s has not started a      *)
(* ceremony yet.                                                           *)
(***************************************************************************)
NoStart == [op |-> "none", session |-> <<>>]

Idle == [kind |-> "idle", username |-> NoText, challenge |-> None]

Started(kind, username, challenge) ==
    [kind |-> kind, username |-> username, challenge |-> challenge]

Finished == [kind |-> "consumed", username |-> NoText, challenge |-> None]

Dropped == [kind |-> "dropped", username |-> NoText, challenge |-> None]

\* a finish call in s that fails the "no pending" check has popped the
\* entries all the same: a ceremony started in s is dropped
PhaseAfterPop(s) ==
    [phase EXCEPT ![s] = IF phase[s].kind \in {"register", "login"}
                         THEN Dropped ELSE phase[s]]

OriginAfterPop(ks) == [k \in Keys |-> IF k \in ks THEN NoStart ELSE origin[k]]

OriginAfterStart(ks, op, s) ==
    [k \in Keys |-> IF k \in ks THEN [op |-> op, session |-> s] ELSE origin[k]]

(***************************************************************************)
(* A handler maps the state and a request to an outcome: the HTTP reply    *)
(* (status, detail, username), the call made to the verification gateway   *)
(* (gateway, expected, row: the credential row passed to it) and the       *)
(* state the handler leaves.                                               *)
(***************************************************************************)
NoRow == [credential_id |-> [body |-> <<>>, pad |-> 0], user_id |-> NoText,
          public_key |-> [body |-> <<>>, pad |-> 0], sign_count |-> 0]

Reply(status, detail) ==
    [status |-> status, detail |-> detail, username |-> NoText,
     gateway |-> "none", expected |-> None, row |-> NoRow,
     challenges |-> challenges, origin |-> origin, phase |-> phase,
     users |-> users, credentials |-> credentials, minted |-> minted,
     authed_user |-> authed_user]

\* the server after the handler returned: its dictionary and its tables
Apply(o) ==
    /\ challenges' = o.challenges
    /\ origin' = o.origin
    /\ users' = o.users
    /\ credentials' = o.credentials
    /\ minted' = o.minted

\* the browser after the response arrived (its cookie jar), and the record
\* of the ceremony of each session
Receive(o) ==
    /\ authed_user' = o.authed_user
    /\ phase' = o.phase

(***************************************************************************)
(* get_or_create_session: the cookie value as presented (a missing cookie  *)
(* is answered with a freshly minted id, which the client presents next).  *)
(***************************************************************************)
get_or_create_session(cookie) == cookie

(***************************************************************************)
(* POST /api/register/start                                                *)
(***************************************************************************)
RegisterStartKeys(s) ==
    { Key(s, ChallengeSlot), Key(s, UserIdSlot), Key(s, UsernameSlot) }

register_start(cookie, raw) ==
    LET session_id == get_or_create_session(cookie)
        username == Normalize(raw)
    IN  IF username = <<>>
        THEN Reply(400, "username_required")
        ELSE IF FindUser(username) # {}
        THEN Reply(409, "username_taken")
        ELSE [Reply(200, "ok") EXCEPT
                !.minted = minted + 1,
                !.challenges = [challenges EXCEPT
                    ![Key(session_id, ChallengeSlot)] = Chal(minted + 1),
                    ![Key(session_id, UserIdSlot)] = UidBytes(minted + 1),
                    ![Key(session_id, UsernameSlot)] = NameBytes(username)],
                !.origin = OriginAfterStart(RegisterStartKeys(session_id),
                                            "register_start", session_id),
                !.phase = [phase EXCEPT ![session_id] =
                              Started("register", username, Chal(minted + 1))]]

(***************************************************************************)
(* POST /api/register/finish                                               *)
(***************************************************************************)
\* line 199: if not challenge or not user_id
NoPendingRegistration(challenge, user_id, username) ==
    ~Truthy(challenge) \/ ~Truthy(user_id)

\* lines 202-203: x.decode() if isinstance(x, bytes) else x
Decoded(v) ==
    IF v = None THEN NullName
    ELSE IF v.t = "uid" THEN <<"#", ToString(v.n)>>
    ELSE v.s

register_finish(cookie, resp) ==
    LET session_id == get_or_create_session(cookie)
        ks == RegisterStartKeys(session_id)
        challenge == Popped(Key(session_id, ChallengeSlot))
        user_id == Popped(Key(session_id, UserIdSlot))
        username == Popped(Key(session_id, UsernameSlot))
        popped(status, detail) ==
            [Reply(status, detail) EXCEPT !.challenges = AfterPop(ks),
                                          !.origin = OriginAfterPop(ks),
                                          !.phase = PhaseAfterPop(session_id)]
        obtained(status, detail) ==
            [popped(status, detail) EXCEPT
                !.phase = [phase EXCEPT ![session_id] = Finished]]
        verified(status, detail) ==
            [obtained(status, detail) EXCEPT !.gateway = "verify_registration",
                                             !.expected = challenge]
        cred_id == B64Encode(RawCredentialId(resp.key))
        pub_key == B64Encode(RawPublicKey(resp.key))
        stored == PersistRegistration(Decoded(user_id), Decoded(username), cred_id,
                                      pub_key, resp.count)
    IN  IF NoPendingRegistration(challenge, user_id, username)
        THEN popped(400, "no_pending")
        ELSE IF DecodeFails(user_id) \/ DecodeFails(username)
        THEN obtained(500, "unicode_decode_error")
        ELSE IF ~RegistrationVerifies(resp, challenge)
        THEN verified(400, "verification_failed")
        ELSE IF ~stored.ok
        THEN [verified(500, "integrity_error") EXCEPT
                !.users = stored.users,
                !.credentials = stored.credentials]
        ELSE [verified(200, "ok") EXCEPT !.users = stored.users,
                                         !.credentials = stored.credentials,
                                         !.username = Decoded(username)]

(***************************************************************************)
(* POST /api/login/start                                                   *)
(***************************************************************************)
LoginStartKeys(s) == { Key(s, ChallengeSlot), Key(s, UsernameSlot) }

\* lines 252-257: urlsafe_b64decode(c["credential_id"] + "==") for each row
AllowListFails(creds) ==
    \E c \in creds : B64DecodeFails(AppendPad(c.credential_id))

\* Variant: the challenge is generated and stored before the user lookup
login_start_eager(cookie, raw) ==
    LET session_id == get_or_create_session(cookie)
        username == Normalize(raw)
        user == FindUser(username)
        stored == [challenges EXCEPT
                      ![Key(session_id, ChallengeSlot)] = Chal(minted + 1),
                      ![Key(session_id, UsernameSlot)] = NameBytes(username)]
    IN  IF user = {}
        THEN [Reply(404, "user_not_found") EXCEPT !.challenges = stored]
        ELSE [Reply(200, "ok") EXCEPT
                !.minted = minted + 1,
                !.challenges = stored,
                !.origin = OriginAfterStart(LoginStartKeys(session_id),
                                            "login_start", session_id),
                !.phase = [phase EXCEPT ![session_id] =
                              Started("login", username, Chal(minted + 1))]]

login_start(cookie, raw) ==
    LET session_id == get_or_create_session(cookie)
        username == Normalize(raw)
        user == FindUser(username)
    IN  IF user = {}
        THEN Reply(404, "user_not_found")
        ELSE IF \E u \in user : AllowListFails(CredentialsOf(u.id))
        THEN Reply(500, "binascii_error")
        ELSE [Reply(200, "ok") EXCEPT
                !.minted = minted + 1,
                !.challenges = [challenges EXCEPT
                    ![Key(session_id, ChallengeSlot)] = Chal(minted + 1),
                    ![Key(session_id, UsernameSlot)] = NameBytes(username)],
                !.origin = OriginAfterStart(LoginStartKeys(session_id),
                                            "login_start", session_id),
                !.phase = [phase EXCEPT ![session_id] =
                              Started("login", username, Chal(minted + 1))]]

(***************************************************************************)
(* The authed_user cookie.  authed_user[c] is the cookie in the jar of the *)
(* browser whose session_id cookie is c, as the server's Set-Cookie        *)
(* headers left it; the server keeps no copy.                              *)
(***************************************************************************)
\* request.cookies.get("authed_user") when the request carries no such cookie
NoCookie == <<"none">>

\* response.set_cookie("authed_user", username, ...)
SetCookie(client, username) == [authed_user EXCEPT ![client] = username]

\* response.delete_cookie("authed_user")
DeleteCookie(client) == [authed_user EXCEPT ![client] = NoCookie]

(***************************************************************************)
(* POST /api/login/finish                                                  *)
(***************************************************************************)
\* line 279: if not challenge
NoPendingLogin(challenge) == ~Truthy(challenge)

\* line 282: the client's hint is read only when no username is bound
HintRead(username_bytes) == ~Truthy(username_bytes)

\* line 282: username_bytes.decode() if username_bytes else body.username.strip().lower()
EffectiveUsername(username_bytes, hint) ==
    IF HintRead(username_bytes) THEN Normalize(hint) ELSE Decoded(username_bytes)

\* Variant: the stored counter is not passed to the verification
KnownSignCountOmitted(cred_row) == 0

\* line 310: credential_current_sign_count=cred_row["sign_count"]
KnownSignCount(cred_row) == cred_row.sign_count

\* Variant: the stored counter is incremented instead of set to the reported one
NewSignCountIncremented(resp) == resp.count + 1

\* line 319: verification.new_sign_count, the counter the authenticator reported
NewSignCount(resp) == resp.count

\* The outcomes of one call: fetchone() returns any one of the rows selected.
login_finish(cookie, hint, resp) ==
    LET session_id == get_or_create_session(cookie)
        ks == LoginStartKeys(session_id)
        challenge == Popped(Key(session_id, ChallengeSlot))
        username_bytes == Popped(Key(session_id, UsernameSlot))
        popped(status, detail) ==
            [Reply(status, detail) EXCEPT !.challenges = AfterPop(ks),
                                          !.origin = OriginAfterPop(ks),
                                          !.phase = PhaseAfterPop(session_id)]
        obtained(status, detail) ==
            [popped(status, detail) EXCEPT
                !.phase = [phase EXCEPT ![session_id] = Finished]]
        username == EffectiveUsername(username_bytes, hint)
        user == FindUser(username)
        verify(cred_row) ==
            LET key_text == AppendPad(cred_row.public_key)
                verified(status, detail) ==
                    [obtained(status, detail) EXCEPT
                        !.gateway = "verify_authentication",
                        !.expected = challenge,
                        !.row = cred_row]
            IN  IF \/ B64DecodeFails(key_text)
                   \/ ~AuthenticationVerifies(resp, challenge, B64Decode(key_text),
                                              KnownSignCount(cred_row))
                THEN verified(400, "authentication_failed")
                ELSE [verified(200, "ok") EXCEPT
                        !.credentials = UpdateSignCount(cred_row.credential_id,
                                                        NewSignCount(resp)),
                        !.username = username,
                        !.authed_user = SetCookie(session_id, username)]
    IN  IF NoPendingLogin(challenge)
        THEN { popped(400, "no_pending") }
        ELSE IF ~HintRead(username_bytes) /\ DecodeFails(username_bytes)
        THEN { obtained(500, "unicode_decode_error") }
        ELSE IF user = {}
        THEN { obtained(404, "user_not_found") }
        ELSE UNION { IF CredentialsOf(u.id) = {}
                     THEN { obtained(400, "no_credentials") }
                     ELSE { verify(cred_row) : cred_row \in CredentialsOf(u.id) }
                     : u \in user }

(***************************************************************************)
(* GET /api/me and POST /api/logout                                        *)
(***************************************************************************)
\* line 336: if not username (None and "" are falsy)
NotAuthenticated(username) == username = NoCookie \/ username = <<>>

\* cookie: the authed_user cookie the request carries
me(cookie) ==
    IF NotAuthenticated(cookie)
    THEN Reply(401, "not_authenticated")
    ELSE [Reply(200, "ok") EXCEPT !.username = cookie]

\* client: the browser that receives the response
logout(client) ==
    [Reply(200, "ok") EXCEPT !.authed_user = DeleteCookie(client)]

(***************************************************************************)
(* The server after startup(): empty challenge dictionary, empty tables.   *)
(***************************************************************************)
Init ==
    /\ challenges = [k \in Keys |-> None]
    /\ users = {}
    /\ credentials = {}
    /\ minted = 0
    /\ origin = [k \in Keys |-> NoStart]
    /\ phase = [s \in Sessions |-> Idle]
    /\ authed_user = [s \in Sessions |-> NoCookie]

\* the value a finish call in session s will be verified against
Outstanding(s) == challenges[Key(get_or_create_session(s), ChallengeSlot)]

\* The requests the clients send.  A finish handler reads body.credential
\* only once it holds a challenge, and login_finish reads body.username only
\* when it holds a challenge and no bound username: where an input is not
\* read, one value stands for all.
Submitted(s) ==
    IF Truthy(Outstanding(s))
    THEN Responses(Outstanding(s))
    ELSE { [chal |-> None, key |-> "k1", count |-> 0] }

Hints(s) ==
    IF /\ Truthy(Outstanding(s))
       /\ HintRead(challenges[Key(get_or_create_session(s), UsernameSlot)])
    THEN RawUsernames
    ELSE { <<" ">> }

\* One request served, whole: the handlers are coroutines that never await.
Served(o) == Apply(o) /\ UNCHANGED <<authed_user, phase>>

RegisterStart ==
    \E s \in Sessions, raw \in RawUsernames :
        /\ register_start(s, raw).minted <= MaxStarts
        /\ Served(register_start(s, raw))

RegisterFinish ==
    \E s \in Sessions : \E resp \in Submitted(s) :
        Served(register_finish(s, resp))

LoginStart ==
    \E s \in Sessions, raw \in RawUsernames :
        /\ login_start(s, raw).minted <= MaxStarts
        /\ Served(login_start(s, raw))

LoginFinish ==
    \E s \in Sessions : \E resp \in Submitted(s), hint \in Hints(s) :
        \E o \in login_finish(s, hint, resp) : Served(o)

Next ==
    \/ RegisterStart
    \/ RegisterFinish
    \/ LoginStart
    \/ LoginFinish

\* The server: the challenge dictionary and the credential store, with the
\* four ceremony endpoints that read and write them.
Spec == Init /\ [][Next]_vars

(***************************************************************************)
(* The server together with its clients: each request served changes the   *)
(* server and, through the response, the cookie jar of the browser that    *)
(* sent it; the ceremony of each session is recorded.  me and logout touch *)
(* nothing on the server.                                                  *)
(***************************************************************************)
Exchanged(o) == Apply(o) /\ Receive(o)

ClientRegisterStart ==
    \E s \in Sessions, raw \in RawUsernames :
        /\ register_start(s, raw).minted <= MaxStarts
        /\ Exchanged(register_start(s, raw))

ClientRegisterFinish ==
    \E s \in Sessions : \E resp \in Submitted(s) :
        Exchanged(register_finish(s, resp))

ClientLoginStart ==
    \E s \in Sessions, raw \in RawUsernames :
        /\ login_start(s, raw).minted <= MaxStarts
        /\ Exchanged(login_start(s, raw))

ClientLoginFinish ==
    \E s \in Sessions : \E resp \in Submitted(s), hint \in Hints(s) :
        \E o \in login_finish(s, hint, resp) : Exchanged(o)

\* The authed_user cookie of a request is whatever the client sends: the one
\* in its jar, none, an empty one or one it wrote itself.
PresentedCookies(s) == { authed_user[s], NoCookie, <<>> } \cup Usernames

Me ==
    \E s \in Sessions : \E cookie \in PresentedCookies(s) :
        Exchanged(me(cookie))

Logout ==
    \E s \in Sessions : Exchanged(logout(s))

NextClients ==
    \/ ClientRegisterStart
    \/ ClientRegisterFinish
    \/ ClientLoginStart
    \/ ClientLoginFinish
    \/ Me
    \/ Logout

SpecClients == Init /\ [][NextClients]_vars

(***************************************************************************)
(* The calls a client can make in the current state, with their outcomes.  *)
(***************************************************************************)
RegisterFinishCalls(s) == { register_finish(s, resp) : resp \in Submitted(s) }

LoginFinishCalls(s) ==
    UNION { login_finish(s, hint, resp) : hint \in Hints(s), resp \in Submitted(s) }

FinishCalls(s) == RegisterFinishCalls(s) \cup LoginFinishCalls(s)

StartCalls(s) ==
    { register_start(s, raw) : raw \in RawUsernames }
        \cup { login_start(s, raw) : raw \in RawUsernames }

Calls(s) == StartCalls(s) \cup FinishCalls(s)

StoreUntouched(o) == o.users = users /\ o.credentials = credentials

NoPending(o) == o.status = 400 /\ o.detail = "no_pending"

\* the sessions whose challenge a finish call has consumed, no start since
Consumed == { s \in Sessions : phase[s] = Finished }

(***************************************************************************)
(* C1.  Once a finish call in session s has consumed the challenge of s,   *)
(* every finish call in s of either kind, whatever its response, fails     *)
(* with 400 "no pending", calls no verification and leaves the credential  *)
(* store alone, until a start succeeds in s again.                         *)
(***************************************************************************)
C1_ConsumedChallengeNeverAcceptedAgain ==
    \A s \in Consumed : \A o \in FinishCalls(s) :
        NoPending(o) /\ o.gateway = "none" /\ StoreUntouched(o)

\* C1 for the sessions whose challenge key no other session's start writes
Unaliased(s) ==
    \A s2 \in Sessions \ {s} : Key(s, ChallengeSlot) \notin RegisterStartKeys(s2)

C1_HoldsWhereNoKeyIsShared ==
    \A s \in Consumed : Unaliased(s) =>
        \A o \in FinishCalls(s) :
            NoPending(o) /\ o.gateway = "none" /\ StoreUntouched(o)

(***************************************************************************)
(* C2.  Of the finish calls that race for the one challenge pending in a   *)
(* session, served in any order, exactly one obtains it: a finish call     *)
(* gets past the "no pending" check exactly when a start has written the   *)
(* entries it pops and no finish call has popped them since.               *)
(***************************************************************************)
Written(k) == origin[k] # NoStart

C2_ExactlyOneRacingFinishObtains ==
    \A s \in Sessions :
        /\ \A o \in LoginFinishCalls(s) :
              ~NoPending(o) <=> Written(Key(s, ChallengeSlot))
        /\ \A o \in RegisterFinishCalls(s) :
              ~NoPending(o) <=> /\ Written(Key(s, ChallengeSlot))
                                /\ Written(Key(s, UserIdSlot))

\* the one challenge minted so far was obtained by a finish call that stored
\* its user, and every finish call served next finds none
C2_Witness ==
    /\ minted = 1
    /\ users # {}
    /\ \A s \in Sessions :
           /\ ~Written(Key(s, ChallengeSlot))
           /\ \A o \in FinishCalls(s) : NoPending(o)

(***************************************************************************)
(* C3.  A second registration of a username that is already registered     *)
(* fails with 409 Conflict, at start or (when both ceremonies were started *)
(* before either finished) at finish with a valid response, and the store  *)
(* keeps the first registration's row only.                                *)
(***************************************************************************)
Registered(username) == FindUser(username) # {}

\* a registration start in s wrote the three entries of s, none popped since
RegistrationStarted(s) ==
    \A k \in RegisterStartKeys(s) : origin[k] = [op |-> "register_start", session |-> s]

\* the username a registration finish in s will insert
PendingUsername(s) == Decoded(challenges[Key(s, UsernameSlot)])

C3_SecondRegistrationIsConflict ==
    \A s \in Sessions :
        /\ \A raw \in RawUsernames :
              Registered(Normalize(raw)) =>
                  /\ register_start(s, raw).status = 409
                  /\ StoreUntouched(register_start(s, raw))
        /\ \A resp \in Submitted(s) :
              ( /\ RegistrationStarted(s)
                /\ Registered(PendingUsername(s))
                /\ RegistrationVerifies(resp, Outstanding(s)) ) =>
                  /\ register_finish(s, resp).status = 409
                  /\ StoreUntouched(register_finish(s, resp))

(***************************************************************************)
(* C4.  User and credential rows exist only as the pair one registration   *)
(* finish wrote: every credential belongs to an existing user, every user  *)
(* owns a credential, and a registration finish one of whose INSERTs       *)
(* fails leaves neither row behind.                                        *)
(***************************************************************************)
C4_UserAndCredentialRowsAreUnits ==
    /\ \A c \in credentials : \E u \in users : u.id = c.user_id
    /\ \A u \in users : \E c \in credentials : c.user_id = u.id
    /\ \A s \in Sessions : \A o \in RegisterFinishCalls(s) :
          o.detail = "integrity_error" => StoreUntouched(o)

\* a verified registration finish whose user INSERT would pass and whose
\* credential INSERT hits an existing credential_id
C4_Witness ==
    \E s \in Sessions : \E resp \in Submitted(s) :
        /\ register_finish(s, resp).detail = "integrity_error"
        /\ ~InsertUserFails(Decoded(challenges[Key(s, UserIdSlot)]), PendingUsername(s))
        /\ InsertCredentialFails(B64Encode(RawCredentialId(resp.key)))

(***************************************************************************)
(* C5.  No call lowers the stored sign_count of a credential (nor removes  *)
(* the credential): over every sequence of calls, served in any order,     *)
(* each stored sign_count is non-decreasing.                               *)
(***************************************************************************)
C5_SignCountNeverDecreases ==
    \A s \in Sessions : \A o \in Calls(s) : \A c \in credentials :
        \E c2 \in o.credentials :
            /\ c2.credential_id = c.credential_id
            /\ c2.sign_count >= c.sign_count

\* a login finish succeeds on a credential whose stored count is above 0
C5_Witness ==
    \E s \in Sessions : \E o \in LoginFinishCalls(s) :
        o.status = 200 /\ o.row.sign_count > 0

(***************************************************************************)
(* C6.  A login finish that reports a counter not above the stored         *)
(* sign_count, the stored one being above 0, fails and leaves the store    *)
(* unchanged; one whose response answers the challenge, comes from the     *)
(* authenticator of the stored credential and reports a counter above the  *)
(* stored one succeeds, and the stored sign_count becomes that counter.    *)
(***************************************************************************)
StaleCounter(resp, o) ==
    o.row.sign_count > 0 /\ resp.count <= o.row.sign_count

ValidWithHigherCounter(resp, o) ==
    /\ resp.chal = o.expected
    /\ B64Encode(RawCredentialId(resp.key)) = o.row.credential_id
    /\ resp.count > o.row.sign_count

C6_CounterRule ==
    \A s \in Sessions : \A hint \in Hints(s), resp \in Submitted(s) :
        \A o \in login_finish(s, hint, resp) :
            o.gateway = "verify_authentication" =>
                /\ StaleCounter(resp, o) => o.status # 200 /\ StoreUntouched(o)
                /\ ValidWithHigherCounter(resp, o) =>
                      /\ o.status = 200
                      /\ \A c \in o.credentials :
                            c.credential_id = o.row.credential_id
                                => c.sign_count = resp.count

\* both cases arise on a credential whose stored count is above 0
C6_Witness ==
    \E s \in Sessions : \E hint \in Hints(s), r1 \in Submitted(s), r2 \in Submitted(s) :
        /\ \E o \in login_finish(s, hint, r1) :
              o.gateway = "verify_authentication" /\ StaleCounter(r1, o)
        /\ \E o \in login_finish(s, hint, r2) :
              /\ o.gateway = "verify_authentication"
              /\ o.row.sign_count > 0
              /\ ValidWithHigherCounter(r2, o)

(***************************************************************************)
(* C7.  A login finish that succeeds in session s consumed a challenge     *)
(* that a login start in s issued, and confirms the username that login    *)
(* start bound to s, whatever hint the client sends.                       *)
(***************************************************************************)
WrittenByLoginStart(s, k) == origin[k] = [op |-> "login_start", session |-> s]

C7_LoginConfirmsUsernameBoundAtStart ==
    \A s \in Sessions : \A o \in LoginFinishCalls(s) :
        o.status = 200 =>
            /\ WrittenByLoginStart(s, Key(s, ChallengeSlot))
            /\ WrittenByLoginStart(s, Key(s, UsernameSlot))
            /\ o.username = Decoded(challenges[Key(s, UsernameSlot)])

(***************************************************************************)
(* C8.  A call that fails, whatever the cause, leaves the credential store *)
(* exactly as it was.                                                      *)
(***************************************************************************)
C8_FailedCallsLeaveStoreUnchanged ==
    \A s \in Sessions : \A o \in Calls(s) :
        o.status # 200 => StoreUntouched(o)

\* a finish call fails after verification, on a storage constraint, with
\* rows in the store, and a login finish fails verification
C8_Witness ==
    /\ users # {}
    /\ \E s \in Sessions : \E o \in RegisterFinishCalls(s) : o.detail = "integrity_error"
    /\ \E s \in Sessions : \E o \in LoginFinishCalls(s) : o.detail = "authentication_failed"

(***************************************************************************)
(* C9.  A start call that is rejected (400 empty username, 409 username    *)
(* taken, 404 unknown user) generates no challenge and leaves every entry  *)
(* of the challenge dictionary as it was.                                  *)
(***************************************************************************)
C9_RejectedStartsLeaveCacheUnchanged ==
    \A s \in Sessions : \A o \in StartCalls(s) :
        o.status # 200 => o.challenges = challenges /\ o.minted = minted

\* with a challenge outstanding in s, starts are rejected in s with 400, 409, 404
C9_Witness ==
    \E s \in Sessions :
        /\ Truthy(Outstanding(s))
        /\ \E raw \in RawUsernames : register_start(s, raw).status = 400
        /\ \E raw \in RawUsernames : register_start(s, raw).status = 409
        /\ \E raw \in RawUsernames : login_start(s, raw).status = 404

(***************************************************************************)
(* C10.  A registration finish in s fails with 400 "no pending" whenever   *)
(* the challenge, the pending user id or the pending username of s is      *)
(* absent, and succeeds only when the latest start in s was a registration *)
(* start that no finish call has consumed.                                 *)
(***************************************************************************)
C10_FinishNeedsAllThreeEntries ==
    \A s \in Sessions : \A o \in RegisterFinishCalls(s) :
        /\ (\E k \in RegisterStartKeys(s) : challenges[k] = None) => NoPending(o)
        /\ o.status = 200 => phase[s].kind = "register"

(***************************************************************************)
(* C11.  GET /api/me answers 200 with username u to a client only if the   *)
(* latest successful login finish of that client confirmed u and the       *)
(* client has not logged out since; in every other case it answers 401.    *)
(* No call other than a successful login finish marks a client.            *)
(***************************************************************************)
\* the marker of client s: set by login_finish's set_cookie, cleared by logout
Marked(s) == authed_user[s]

MarksOnlyByLoginFinish(s, o) ==
    \A c \in Sessions :
        o.authed_user[c] # authed_user[c] =>
            \/ o.authed_user[c] = NoCookie
            \/ /\ c = s
               /\ o.status = 200
               /\ o.gateway = "verify_authentication"
               /\ o.authed_user[c] = o.username

C11_MeReturnsOnlyMarkedIdentity ==
    \A s \in Sessions :
        /\ \A cookie \in PresentedCookies(s) :
              IF Marked(s) # NoCookie /\ cookie = Marked(s)
              THEN me(cookie).status = 200 /\ me(cookie).username = Marked(s)
              ELSE me(cookie).status = 401
        /\ \A o \in Calls(s) \cup { logout(s) } \cup { me(c) : c \in PresentedCookies(s) } :
              MarksOnlyByLoginFinish(s, o)

\* C11 for the requests that carry the cookie the server set, or none
C11_HoldsForCookiesOfTheJar ==
    \A s \in Sessions :
        /\ \A cookie \in { authed_user[s] } :
              IF Marked(s) # NoCookie
              THEN me(cookie).status = 200 /\ me(cookie).username = Marked(s)
              ELSE me(cookie).status = 401
        /\ \A o \in Calls(s) \cup { logout(s) } \cup { me(c) : c \in PresentedCookies(s) } :
              MarksOnlyByLoginFinish(s, o)

(***************************************************************************)
(* C12.  Round trip: once username u is registered with a credential and   *)
(* a login start for u has succeeded in session s, a login finish in s     *)
(* whose response the gateway accepts for the issued challenge, the        *)
(* credential's public key and its stored counter answers 200 with         *)
(* username u, whatever the calls made in other sessions.                  *)
(***************************************************************************)
\* the credentials registered for username u
CredentialsOfUsername(u) ==
    UNION { CredentialsOf(user.id) : user \in FindUser(u) }

\* the gateway accepts resp for challenge ch and the stored credential c
Accepted(resp, ch, c) ==
    AuthenticationVerifies(resp, ch, B64Decode(AppendPad(c.public_key)), c.sign_count)

RoundTripCompletes(s) ==
    \A c \in CredentialsOfUsername(phase[s].username) :
        \A resp \in Responses(phase[s].challenge), hint \in RawUsernames :
            Accepted(resp, phase[s].challenge, c) =>
                \A o \in login_finish(s, hint, resp) :
                    o.status = 200 /\ o.username = phase[s].username

C12_RoundTrip ==
    \A s \in Sessions : phase[s].kind = "login" => RoundTripCompletes(s)

\* the sessions none of whose keys is a key of another session
Isolated(s) ==
    \A s2 \in Sessions \ {s} : RegisterStartKeys(s) \cap RegisterStartKeys(s2) = {}

\* C12 for the sessions that share no key
C12_HoldsWhereNoKeyIsShared ==
    \A s \in Sessions :
        Isolated(s) /\ phase[s].kind = "login" => RoundTripCompletes(s)

\* a round trip is pending in a session that shares no key
C12_IsolatedRoundTripPending ==
    \E s \in Sessions :
        /\ Isolated(s) /\ phase[s].kind = "login"
        /\ \E c \in CredentialsOfUsername(phase[s].username) :
              \E resp \in Responses(phase[s].challenge) : Accepted(resp, phase[s].challenge, c)

(***************************************************************************)
(* C13.  Registration start and login start compare usernames after        *)
(* trimming surrounding whitespace and lower-casing: two inputs with the   *)
(* same trimmed lower-case form get the same answer and bind the same      *)
(* username, an input whose form is a registered username gets 409 from    *)
(* registration start and 200 from login start, and the usernames stored   *)
(* are in that form.                                                       *)
(***************************************************************************)
\* trim surrounding whitespace, then lower-case
TrimmedLowerCase(raw) == Lower(Strip(raw))

SameForm(raw1, raw2) == TrimmedLowerCase(raw1) = TrimmedLowerCase(raw2)

C13_SpellingsResolveToOneUser ==
    /\ \A u \in users : TrimmedLowerCase(u.username) = u.username
    /\ \A s \in Sessions : \A raw1 \in RawUsernames, raw2 \in RawUsernames :
          SameForm(raw1, raw2) =>
              /\ register_start(s, raw1) = register_start(s, raw2)
              /\ login_start(s, raw1) = login_start(s, raw2)
    /\ \A s \in Sessions : \A raw \in RawUsernames : \A u \in users :
          u.username = TrimmedLowerCase(raw) =>
              /\ register_start(s, raw).status = 409
              /\ login_start(s, raw).status = 200
              /\ login_start(s, raw).challenges[Key(s, UsernameSlot)] = NameBytes(u.username)

\* a registered username that two different spellings resolve to
C13_Witness ==
    \E s \in Sessions : \E raw1 \in RawUsernames, raw2 \in RawUsernames : \E u \in users :
        /\ raw1 # raw2
        /\ u.username = TrimmedLowerCase(raw1)
        /\ SameForm(raw1, raw2)
        /\ register_start(s, raw2).status = 409
        /\ login_start(s, raw2).status = 200

(***************************************************************************)
(* C14.  A login finish writes the stored sign_count only when the gateway *)
(* has accepted the response of that same request: a call that does not    *)
(* reach the gateway, or whose verification fails, leaves every row as it  *)
(* was, and a successful one changes exactly the row whose public key and  *)
(* counter it passed to the gateway, to the counter the gateway returned.  *)
(***************************************************************************)
\* the table after the row passed to the gateway got the new counter
RowUpdated(row, count) ==
    (credentials \ {row}) \cup { [row EXCEPT !.sign_count = count] }

C14_SignCountWrittenAfterVerification ==
    \A s \in Sessions : \A hint \in Hints(s), resp \in Submitted(s) :
        \A o \in login_finish(s, hint, resp) :
            IF o.status = 200
            THEN /\ o.gateway = "verify_authentication"
                 /\ o.row \in credentials
                 /\ Accepted(resp, o.expected, o.row)
                 /\ o.credentials = RowUpdated(o.row, resp.count)
            ELSE o.credentials = credentials

\* the gateway accepts a response with a new counter and rejects another
C14_Witness ==
    \E s \in Sessions : \E hint \in Hints(s), r1 \in Submitted(s), r2 \in Submitted(s) :
        /\ \E o \in login_finish(s, hint, r1) :
              o.status = 200 /\ o.credentials # credentials
        /\ \E o \in login_finish(s, hint, r2) :
              o.status = 400 /\ o.gateway = "verify_authentication"

(***************************************************************************)
(* C15.  Every finish call pops the challenge and the pending metadata of  *)
(* its ceremony before it verifies anything, so they are gone whether the  *)
(* call then succeeds, fails verification or fails on an unknown user or   *)
(* a missing credential; and a session in which a finish call finds        *)
(* nothing pending stays so until a start call succeeds: the retry fails   *)
(* with 400 "no pending".                                                  *)
(***************************************************************************)
EntriesGone(o, ks) == \A k \in ks : o.challenges[k] = None

FinishPopsFirst ==
    \A s \in Sessions :
        /\ \A o \in RegisterFinishCalls(s) : EntriesGone(o, RegisterStartKeys(s))
        /\ \A o \in LoginFinishCalls(s) : EntriesGone(o, LoginStartKeys(s))

NothingPending(s) == \A o \in FinishCalls(s) : NoPending(o)

\* the challenge entry of s is absent
ChallengeGone(s) == ~Truthy(Outstanding(s))

RetryFails ==
    \A s \in Sessions :
        /\ ChallengeGone(s) => NothingPending(s)
        /\ ChallengeGone(s) /\ minted' = minted => ChallengeGone(s)'

OverwritesEarlierStart(s, o) ==
    \A k \in RegisterStartKeys(s) :
        o.origin[k] # NoStart => o.origin[k] = o.origin[Key(s, ChallengeSlot)]

\* the challenge the most recent successful start in s issued, if still pending
LatestChallenge(s) == phase[s].challenge

VerifiedAgainstLatest(s, resp, o) ==
    /\ o.gateway # "none" =>
          /\ phase[s].kind \in {"register", "login"}
          /\ o.expected = LatestChallenge(s)
    /\ o.status = 200 => resp.chal = LatestChallenge(s)

OneOutstandingChallenge(s) ==
    /\ \A o \in StartCalls(s) :
          o.status = 200 =>
              /\ o.challenges[Key(s, ChallengeSlot)] = Chal(o.minted)
              /\ OverwritesEarlierStart(s, o)
    /\ \A resp \in Submitted(s) :
          /\ VerifiedAgainstLatest(s, resp, register_finish(s, resp))
          /\ \A hint \in Hints(s) : \A o \in login_finish(s, hint, resp) :
                VerifiedAgainstLatest(s, resp, o)

C16_OnlyLatestChallengeIsVerified ==
    \A s \in Sessions : OneOutstandingChallenge(s)

\* the same, leaving aside the pending user id that a login start lets stand
\* and the sessions that share a key with another
C16_HoldsWhereNoKeyIsShared ==
    \A s \in Sessions : Isolated(s) =>
        /\ \A o \in StartCalls(s) :
              o.status = 200 => o.challenges[Key(s, ChallengeSlot)] = Chal(o.minted)
        /\ \A resp \in Submitted(s) :
              /\ VerifiedAgainstLatest(s, resp, register_finish(s, resp))
              /\ \A hint \in Hints(s) : \A o \in login_finish(s, hint, resp) :
                    VerifiedAgainstLatest(s, resp, o)

(***************************************************************************)
(* C17.  The entries of distinct sessions are isolated: no call made in    *)
(* session t writes, overwrites or pops the challenge, the pending user id *)
(* or the pending username stored for another session s, whatever the two  *)
(* session cookie values are.                                              *)
(***************************************************************************)
\* the entries stored for session s
EntriesOf(s) == RegisterStartKeys(s)

\* the call with outcome o leaves what is stored for s as it is
LeavesEntriesOf(s, o) ==
    \A k \in EntriesOf(s) : Truthy(challenges[k]) => o.challenges[k] = challenges[k]

C17_SessionsAreIsolated ==
    \A s \in Sessions : \A t \in Sessions \ {s} :
        \A o \in Calls(t) : LeavesEntriesOf(s, o)

\* C17 for the pairs of sessions whose cookie values derive no common key
C17_HoldsWhereNoKeyIsShared ==
    \A s \in Sessions : \A t \in Sessions \ {s} :
        EntriesOf(s) \cap EntriesOf(t) = {} =>
            \A o \in Calls(t) : LeavesEntriesOf(s, o)

(***************************************************************************)
(* C18.  Ceremony kinds do not mix within a session: a registration finish *)
(* reaches the gateway only with a challenge, a pending user id and a      *)
(* pending username that a registration start stored, and a login finish   *)
(* only with a challenge and a username that a login start stored.         *)
(***************************************************************************)
StoredBy(op, ks) == \A k \in ks : origin[k].op = op

C18_CeremonyKindsDoNotMix ==
    \A s \in Sessions :
        /\ \A o \in RegisterFinishCalls(s) :
              o.gateway = "verify_registration" =>
                  StoredBy("register_start", RegisterStartKeys(s))
        /\ \A o \in LoginFinishCalls(s) :
              o.gateway = "verify_authentication" =>
                  StoredBy("login_start", LoginStartKeys(s))

\* C18 restricted to the sessions that share no key with another: it fails too
C18_WhereNoKeyIsShared ==
    \A s \in Sessions : Isolated(s) =>
        /\ \A o \in RegisterFinishCalls(s) :
              o.gateway = "verify_registration" =>
                  StoredBy("register_start", RegisterStartKeys(s))
        /\ \A o \in LoginFinishCalls(s) :
              o.gateway = "verify_authentication" =>
                  StoredBy("login_start", LoginStartKeys(s))

(***************************************************************************)
(* C19.  No user owns more than one credential: only a registration        *)
(* finish inserts credentials, each with a user row of a fresh id, so the  *)
(* row that login finish takes from the SELECT by user id is the only row  *)
(* there is and every outcome of the call is about that one row.           *)
(***************************************************************************)
CredentialIds(creds) == { c.credential_id : c \in creds }

C19_OneCredentialPerUser ==
    /\ \A u \in users : Cardinality(CredentialsOf(u.id)) <= 1
    /\ \A s \in Sessions :
          /\ \A o \in Calls(s) \ RegisterFinishCalls(s) :
                CredentialIds(o.credentials) = CredentialIds(credentials)
          /\ \A o \in RegisterFinishCalls(s) :
                /\ Cardinality(o.credentials \ credentials) <= 1
                /\ \A c \in o.credentials \ credentials :
                      \A u \in users : u.id # c.user_id
          /\ \A hint \in Hints(s), resp \in Submitted(s) :
                \A o1 \in login_finish(s, hint, resp) :
                    \A o2 \in login_finish(s, hint, resp) : o1.row = o2.row

\* a login finish selects the row of a registered user while a second
\* registration of that username with another authenticator is pending
C19_Witness ==
    \E s \in Sessions :
        /\ \E o \in LoginFinishCalls(s) :
              o.gateway = "verify_authentication" /\ o.row \in credentials
        /\ \E s2 \in Sessions : \E resp \in Submitted(s2) :
              /\ RegistrationStarted(s2)
              /\ Registered(PendingUsername(s2))
              /\ RegistrationVerifies(resp, Outstanding(s2))
              /\ ~InsertCredentialFails(B64Encode(RawCredentialId(resp.key)))

====
